---- MODULE Spec2Model ----
(***************************************************************************)
(* Model of lassoManager.py: class LassoManager, which assigns the points  *)
(* of a scatter plot to labelled categories through lasso gestures.        *)
(*                                                                         *)
(* Conventions.  Python sequences are 0-based; the TLA+ sequences below    *)
(* are 1-based, so point i of the model is xys[i-1] of the program.  Label *)
(* indices (labIndxCurrent, the entries of selMsk) are VALUES and keep the *)
(* program's 0-based numbering.  A colour component c in [0,1] is written  *)
(* as the integer 100*c.  Label names are written as positive integers.    *)
(***************************************************************************)
EXTENDS Integers, Sequences, FiniteSets, TLC

(***************************************************************************)
(* Bounds of the model.                                                    *)
(***************************************************************************)
MaxPts == 3
MaxLabels == 6
MaxSteps == 3

(***************************************************************************)
(* Program constants.                                                      *)
(***************************************************************************)
Sentinel == -1
MaxKept == 5

rgbLst ==
  << <<75, 75, 0, 100>>,
     <<0, 0, 100, 100>>,
     <<0, 100, 0, 100>>,
     <<100, 0, 0, 100>>,
     <<100, 100, 100, 100>> >>

VARIABLES
  labelsArg,       \* the labels argument of __init__
  faceArg,         \* collection.get_facecolors() at construction
  ctorErr,         \* exception raised by __init__, or "none"
  labels,          \* self.labels
  Npts,            \* self.Npts
  xys,             \* self.xys
  fcCurrent,       \* self.fcCurrent
  labIndxCurrent,  \* self.labIndxCurrent
  selMsk,          \* self.selMsk
  fc,              \* self.fc
  collFc,          \* the face colours held by self.collection
  nDrawIdle,       \* number of canvas.draw_idle() calls
  nDraw,           \* number of canvas.draw() calls
  drawnFc,         \* the collection's face colours at the last redraw request
  err,             \* exception raised by the last handler call, or "none"
  log              \* the handler calls made so far, oldest first

vars == << labelsArg, faceArg, ctorErr, labels, Npts, xys, fcCurrent,
           labIndxCurrent, selMsk, fc, collFc, nDrawIdle, nDraw, drawnFc,
           err, log >>

(***************************************************************************)
(* Inputs.                                                                 *)
(***************************************************************************)
\* The scatter points: point i lies at (2i-1, 1).
Pt(i) == << 2 * i - 1, 1 >>

PointSets == { [i \in 1..n |-> Pt(i)] : n \in 0..MaxPts }

\* Label names; the name MaxLabels+1 is never configured.
Names == 1..(MaxLabels + 1)

LabelLists == { [k \in 1..n |-> k] : n \in 0..MaxLabels }

\* The collection is drawn in one colour, so get_facecolors() returns a single
\* row, which __init__ tiles into one row per point: 'k' (black) or 'b' (blue,
\* which is also the second palette colour).
FaceColours == { <<0, 0, 0, 100>>, <<0, 0, 100, 100>> }

\* Lasso loops: the rectangle with corners (2a,0) and (2b,2), and a triangle
\* that lies above every point.
Rect(a, b) == << <<2 * a, 0>>, <<2 * b, 0>>, <<2 * b, 2>>, <<2 * a, 2>> >>

FarLoop == << <<0, 4>>, <<2, 4>>, <<1, 6>> >>

\* Loops that pass through the first point, (1,1): it lies on the bottom edge
\* of the first, on the top edge of the second and is a corner of the third.
BottomEdgeLoop == << <<0, 1>>, <<2, 1>>, <<2, 3>>, <<0, 3>> >>

TopEdgeLoop == << <<0, -1>>, <<2, -1>>, <<2, 1>>, <<0, 1>> >>

CornerLoop == << <<1, 1>>, <<2, 1>>, <<2, 3>>, <<1, 3>> >>

LoopSet ==
  { Rect(ab[1], ab[2]) : ab \in { q \in (0..MaxPts) \X (1..MaxPts) : q[1] < q[2] } }
    \cup { FarLoop, BottomEdgeLoop, TopEdgeLoop, CornerLoop }

(***************************************************************************)
(* numpy helpers used by __init__.                                         *)
(***************************************************************************)
RECURSIVE Repeat(_, _)
\* the sequence s concatenated reps times
Repeat(s, reps) == IF reps = 0 THEN << >> ELSE s \o Repeat(s, reps - 1)

\* np.tile(a, reps) of a 2-D array a (a sequence of rows) and a scalar reps:
\* every row is repeated reps times along the last axis.
Tile(a, reps) == [r \in 1..Len(a) |-> Repeat(a[r], reps)]

RECURSIVE Flatten(_)
\* row-major flattening of a 2-D array
Flatten(a) == IF a = << >> THEN << >> ELSE Head(a) \o Flatten(Tail(a))

\* a.reshape(n, -1): the unknown dimension is size/n, which numpy cannot
\* infer when n = 0 or when n does not divide the size (ValueError).
Reshape(a, n) ==
  LET flat == Flatten(a)
      size == Len(flat)
  IN IF n = 0 \/ size % n # 0
       THEN [ok |-> FALSE, val |-> a]
       ELSE LET w == size \div n
            IN [ok |-> TRUE,
                val |-> [r \in 1..n |-> SubSeq(flat, (r - 1) * w + 1, r * w)]]

\* np.ones((n), dtype=np.integer) * -1
InitMask(n) == [i \in 1..n |-> 1 * Sentinel]

\* the label list kept whole
TruncateLabels_None(lbls) == lbls

\* labels[:5]
TruncateLabels(lbls) ==
  IF Len(lbls) <= MaxKept THEN lbls ELSE SubSeq(lbls, 1, MaxKept)

(***************************************************************************)
(* Path(verts).contains_point(xy): crossing test of the +X ray from xy     *)
(* against every edge of the closed polygon.                               *)
(***************************************************************************)
EdgeCrossed(p, a, b) ==
  LET yflag0 == a[2] >= p[2]
      yflag1 == b[2] >= p[2]
  IN /\ yflag0 # yflag1
     /\ (((b[2] - p[2]) * (a[1] - b[1]) >= (b[1] - p[1]) * (a[2] - b[2]))
          <=> yflag1)

ContainsPoint(verts, p) ==
  LET n == Len(verts)
      crossed == { k \in 1..n : EdgeCrossed(p, verts[k], verts[(k % n) + 1]) }
  IN Cardinality(crossed) % 2 = 1

\* np.nonzero([path.contains_point(xy) for xy in self.xys])[0]
Indices(verts, pts) == { i \in 1..Len(pts) : ContainsPoint(verts, pts[i]) }

(***************************************************************************)
(* __init__                                                                *)
(***************************************************************************)
Init ==
  /\ labelsArg \in LabelLists
  /\ faceArg \in FaceColours
  /\ xys \in PointSets
  /\ Npts = Len(xys)
  /\ labels = TruncateLabels(labelsArg)
  /\ fcCurrent = rgbLst[1]
  /\ labIndxCurrent = 0
  /\ selMsk = InitMask(Npts)
  /\ LET tiled == Reshape(Tile(<< faceArg >>, Npts), Npts)
     IN /\ fc = tiled.val
        /\ ctorErr = IF tiled.ok THEN "none" ELSE "ValueError"
  /\ collFc = << faceArg >>
  /\ nDrawIdle = 0
  /\ nDraw = 0
  /\ drawnFc = << >>
  /\ err = "none"
  /\ log = << >>

(***************************************************************************)
(* onSelect                                                                *)
(***************************************************************************)
\* FcAssign with the index array ignored: every row is recoloured
FcAssign_All(buf, indices, colour) ==
  [i \in 1..Len(buf) |-> colour]

\* self.fc[indices] = self.fcCurrent
FcAssign(buf, indices, colour) ==
  [i \in 1..Len(buf) |-> IF i \in indices THEN colour ELSE buf[i]]

\* MskAssign that labels only the points that have no label yet
MskAssign_KeepFirst(msk, indices, lab) ==
  [i \in 1..Len(msk) |->
     IF i \in indices /\ msk[i] = Sentinel THEN lab ELSE msk[i]]

\* MskAssign that starts from a fresh mask: points outside lose their label
MskAssign_Replace(msk, indices, lab) ==
  [i \in 1..Len(msk) |-> IF i \in indices THEN lab ELSE Sentinel]

\* MskAssign that un-assigns a point that already carries the label
MskAssign_Toggle(msk, indices, lab) ==
  [i \in 1..Len(msk) |->
     IF i \in indices THEN (IF msk[i] = lab THEN Sentinel ELSE lab)
     ELSE msk[i]]

\* MskAssign that takes an empty index array for "every point"
MskAssign_EmptyAll(msk, indices, lab) ==
  [i \in 1..Len(msk) |-> IF indices = {} \/ i \in indices THEN lab ELSE msk[i]]

\* MskAssign that keeps only the selected entries (msk = msk[indices])
MskAssign_Shrink(msk, indices, lab) ==
  [i \in 1..Cardinality(indices) |-> lab]

\* MskAssign that works as an eraser on points that already carry a label
MskAssign_Erase(msk, indices, lab) ==
  [i \in 1..Len(msk) |->
     IF i \in indices THEN (IF msk[i] # Sentinel THEN Sentinel ELSE lab)
     ELSE msk[i]]

\* self.selMsk[indices] = self.labIndxCurrent
MskAssign(msk, indices, lab) ==
  [i \in 1..Len(msk) |-> IF i \in indices THEN lab ELSE msk[i]]

\* onSelect with the redraw requested before the colours are handed to the
\* collection
OnSelect_DrawFirst(verts) ==
  /\ ctorErr = "none"
  /\ Len(log) < MaxSteps
  /\ LET indices == Indices(verts, xys)
     IN /\ fc' = FcAssign(fc, indices, fcCurrent)
        /\ collFc' = fc'
        /\ selMsk' = MskAssign(selMsk, indices, labIndxCurrent)
  /\ nDrawIdle' = nDrawIdle + 1
  /\ drawnFc' = collFc
  /\ err' = "none"
  /\ log' = Append(log, [op |-> "select", verts |-> verts])
  /\ UNCHANGED << labelsArg, faceArg, ctorErr, labels, Npts, xys, fcCurrent,
                  labIndxCurrent, nDraw >>

\* onSelect that falls back to the first label once the selection is made
OnSelect_ResetLabel(verts) ==
  /\ ctorErr = "none"
  /\ Len(log) < MaxSteps
  /\ LET indices == Indices(verts, xys)
     IN /\ fc' = FcAssign(fc, indices, fcCurrent)
        /\ collFc' = fc'
        /\ selMsk' = MskAssign(selMsk, indices, labIndxCurrent)
  /\ nDrawIdle' = nDrawIdle + 1
  /\ drawnFc' = collFc'
  /\ err' = "none"
  /\ log' = Append(log, [op |-> "select", verts |-> verts])
  /\ labIndxCurrent' = 0
  /\ fcCurrent' = rgbLst[1]
  /\ UNCHANGED << labelsArg, faceArg, ctorErr, labels, Npts, xys, nDraw >>

OnSelect(verts) ==
  /\ ctorErr = "none"
  /\ Len(log) < MaxSteps
  /\ LET indices == Indices(verts, xys)
     IN /\ fc' = FcAssign(fc, indices, fcCurrent)
        /\ collFc' = fc'
        /\ selMsk' = MskAssign(selMsk, indices, labIndxCurrent)
  /\ nDrawIdle' = nDrawIdle + 1
  /\ drawnFc' = collFc'
  /\ err' = "none"
  /\ log' = Append(log, [op |-> "select", verts |-> verts])
  /\ UNCHANGED << labelsArg, faceArg, ctorErr, labels, Npts, xys, fcCurrent,
                  labIndxCurrent, nDraw >>

(***************************************************************************)
(* onRadioClicked                                                          *)
(***************************************************************************)
\* LabelIndex that returns the 1-based position
LabelIndex_OneBased(lbls, label) ==
  IF \E k \in 1..Len(lbls) : lbls[k] = label
    THEN [ok |-> TRUE, val |-> CHOOSE k \in 1..Len(lbls) : lbls[k] = label]
    ELSE [ok |-> FALSE, val |-> -1]

\* LabelIndex that falls back on the first label for an unknown name
LabelIndex_Default(lbls, label) ==
  IF \E k \in 1..Len(lbls) : lbls[k] = label
    THEN [ok |-> TRUE, val |-> (CHOOSE k \in 1..Len(lbls) : lbls[k] = label) - 1]
    ELSE [ok |-> TRUE, val |-> 0]

\* lbls.index(label): the 0-based position of the first occurrence, or
\* ValueError when there is none.
LabelIndex(lbls, label) ==
  IF \E k \in 1..Len(lbls) : lbls[k] = label
    THEN [ok |-> TRUE,
          val |-> (CHOOSE k \in 1..Len(lbls) :
                     /\ lbls[k] = label
                     /\ \A j \in 1..(k - 1) : lbls[j] # label) - 1]
    ELSE [ok |-> FALSE, val |-> -1]

OnRadioClicked(label) ==
  /\ ctorErr = "none"
  /\ Len(log) < MaxSteps
  /\ LET found == LabelIndex(labels, label)
     IN IF ~found.ok
          THEN /\ err' = "ValueError"
               /\ UNCHANGED << labIndxCurrent, fcCurrent, nDraw, drawnFc >>
          ELSE /\ labIndxCurrent' = found.val
               /\ IF found.val < Len(rgbLst)
                    THEN /\ fcCurrent' = rgbLst[found.val + 1]
                         /\ nDraw' = nDraw + 1
                         /\ drawnFc' = collFc
                         /\ err' = "none"
                    ELSE /\ err' = "IndexError"
                         /\ UNCHANGED << fcCurrent, nDraw, drawnFc >>
  /\ log' = Append(log, [op |-> "radio", label |-> label])
  /\ UNCHANGED << labelsArg, faceArg, ctorErr, labels, Npts, xys, selMsk, fc,
                  collFc, nDrawIdle >>

Next ==
  \/ \E verts \in LoopSet : OnSelect(verts)
  \/ \E label \in Names : OnRadioClicked(label)

Spec == Init /\ [][Next]_vars

(***************************************************************************)
(* Reading the call log.                                                   *)
(***************************************************************************)
IsSelect(e) == e.op = "select"

IsRadio(e) == e.op = "radio"

\* the configured names
Configured == { labels[k] : k \in 1..Len(labels) }

\* the 0-based position of a configured name in the label list
PositionOf(label) == (CHOOSE k \in 1..Len(labels) : labels[k] = label) - 1

RECURSIVE ActiveAfter(_)
\* the label index in force after the calls of lg: the position of the name
\* of the last onRadioClicked call with a configured name, and 0 before any
ActiveAfter(lg) ==
  IF lg = << >> THEN 0
  ELSE LET e == lg[Len(lg)]
       IN IF IsRadio(e) /\ e.label \in Configured
            THEN PositionOf(e.label)
            ELSE ActiveAfter(SubSeq(lg, 1, Len(lg) - 1))

RECURSIVE LastWrite(_, _)
\* the label index in force at the last onSelect call of lg whose polygon
\* contained point i, and the sentinel when there is none
LastWrite(i, lg) ==
  IF lg = << >> THEN Sentinel
  ELSE LET e == lg[Len(lg)]
           before == SubSeq(lg, 1, Len(lg) - 1)
       IN IF IsSelect(e) /\ ContainsPoint(e.verts, xys[i])
            THEN ActiveAfter(before)
            ELSE LastWrite(i, before)

\* the step appends a call to the log
Called == log' # log

LastCall == log'[Len(log')]

(***************************************************************************)
(* C1  Last-write-wins: after every sequence of onSelect and               *)
(* onRadioClicked calls, each point's mask value is the label index that   *)
(* was in force at the last onSelect whose polygon contained the point,    *)
(* and the sentinel -1 when no onSelect contained it.                      *)
(***************************************************************************)
C1_LastWriteWins ==
  /\ Len(selMsk) = Npts
  /\ \A i \in 1..Npts : selMsk[i] = LastWrite(i, log)

\* a point labelled by one gesture has been re-lassoed under another label
C1_Witness ==
  \E i \in 1..Npts : \E k \in 1..Len(log) :
    /\ IsSelect(log[k])
    /\ ContainsPoint(log[k].verts, xys[i])
    /\ selMsk[i] # Sentinel
    /\ selMsk[i] # ActiveAfter(SubSeq(log, 1, k - 1))

(***************************************************************************)
(* C2  Mask/colour correspondence as claimed: for every point i,           *)
(* selMsk[i] is the sentinel if and only if fc[i] is the construction-time *)
(* colour, and otherwise fc[i] is the palette colour at position selMsk[i].*)
(***************************************************************************)
C2_MaskColourIff ==
  \A i \in 1..Npts :
    /\ (selMsk[i] = Sentinel) <=> (fc[i] = faceArg)
    /\ selMsk[i] # Sentinel => fc[i] = rgbLst[selMsk[i] + 1]

(***************************************************************************)
(* C2 (amended)  For every point i, if selMsk[i] is the sentinel then      *)
(* fc[i] is the construction-time colour, and otherwise fc[i] is the       *)
(* palette colour at position selMsk[i].                                   *)
(***************************************************************************)
C2_MaskColour ==
  \A i \in 1..Npts :
    IF selMsk[i] = Sentinel
      THEN fc[i] = faceArg
      ELSE fc[i] = rgbLst[selMsk[i] + 1]

\* a labelled and an unlabelled point side by side, after two gestures
C2_Witness ==
  /\ \E i \in 1..Npts : selMsk[i] = Sentinel
  /\ \E i \in 1..Npts : selMsk[i] = 1
  /\ \E i \in 1..Npts : selMsk[i] = 0

(***************************************************************************)
(* C3  onSelect only affects enclosed points: a point that the loop does   *)
(* not contain has the same mask value and the same colour after the call  *)
(* as before it.                                                           *)
(***************************************************************************)
C3_FrameOutside ==
  [][ (Called /\ IsSelect(LastCall)) =>
        \A i \in 1..Npts :
          ~ContainsPoint(LastCall.verts, xys[i]) =>
            /\ selMsk'[i] = selMsk[i]
            /\ fc'[i] = fc[i] ]_vars

\* a gesture has labelled some points and left an earlier label outside it
C3_Witness ==
  /\ log # << >>
  /\ IsSelect(log[Len(log)])
  /\ \E i \in 1..Npts : ContainsPoint(log[Len(log)].verts, xys[i])
  /\ \E i \in 1..Npts :
       /\ ~ContainsPoint(log[Len(log)].verts, xys[i])
       /\ selMsk[i] # Sentinel

(***************************************************************************)
(* C4  Idempotence: an onSelect call that repeats the previous call's loop *)
(* with no onRadioClicked in between leaves the mask and the colour buffer *)
(* as they were after the first call.                                      *)
(***************************************************************************)
C4_Idempotent ==
  [][ (Called /\ IsSelect(LastCall) /\ log # << >>
         /\ log[Len(log)] = LastCall) =>
        /\ selMsk' = selMsk
        /\ fc' = fc ]_vars

\* the same non-empty loop has been applied twice in a row
C4_Witness ==
  /\ Len(log) >= 2
  /\ IsSelect(log[Len(log)])
  /\ log[Len(log) - 1] = log[Len(log)]
  /\ \E i \in 1..Npts : ContainsPoint(log[Len(log)].verts, xys[i])

(***************************************************************************)
(* C5  onRadioClicked with a configured name sets labIndxCurrent to the    *)
(* position of the name in the label list and fcCurrent to the palette     *)
(* colour at that position, and leaves the mask and the colour buffer      *)
(* unchanged; every later onSelect, until the next onRadioClicked, gives   *)
(* that index and colour to the points it encloses.                        *)
(***************************************************************************)
C5_LabelChosen ==
  [][ /\ (Called /\ IsRadio(LastCall) /\ LastCall.label \in Configured) =>
           /\ labIndxCurrent' = PositionOf(LastCall.label)
           /\ fcCurrent' = rgbLst[PositionOf(LastCall.label) + 1]
           /\ selMsk' = selMsk
           /\ fc' = fc
      /\ (Called /\ IsSelect(LastCall)
            /\ \E k \in 1..Len(log) :
                 IsRadio(log[k]) /\ log[k].label \in Configured) =>
           \A i \in 1..Npts :
             ContainsPoint(LastCall.verts, xys[i]) =>
               /\ selMsk'[i] = ActiveAfter(log)
               /\ fc'[i] = rgbLst[ActiveAfter(log) + 1] ]_vars

\* a point labelled earlier keeps its label while a later gesture, made
\* after a label switch, gives the new label to another point
C5_Witness ==
  /\ Len(log) = 3
  /\ IsSelect(log[1])
  /\ IsRadio(log[2]) /\ log[2].label \in Configured
  /\ PositionOf(log[2].label) = 2
  /\ IsSelect(log[3])
  /\ \E i \in 1..Npts : selMsk[i] = 0
  /\ \E i \in 1..Npts : selMsk[i] = 2 /\ fc[i] = rgbLst[3]

(***************************************************************************)
(* C6  Empty selection is a no-op: when the loop encloses no point, the    *)
(* mask, the colour buffer and the active label are as they were before    *)
(* the call, and no error is raised.                                       *)
(***************************************************************************)
C6_EmptyNoOp ==
  [][ (Called /\ IsSelect(LastCall) /\ Indices(LastCall.verts, xys) = {}) =>
        /\ selMsk' = selMsk
        /\ fc' = fc
        /\ labIndxCurrent' = labIndxCurrent
        /\ fcCurrent' = fcCurrent
        /\ err' = "none" ]_vars

\* a loop that encloses nothing has been closed over labelled points
C6_Witness ==
  /\ log # << >>
  /\ IsSelect(log[Len(log)])
  /\ Indices(log[Len(log)].verts, xys) = {}
  /\ \E i \in 1..Npts : selMsk[i] # Sentinel
  /\ \E i \in 1..Npts : selMsk[i] = Sentinel

(***************************************************************************)
(* C7  onRadioClicked with a name that is not in the truncated label list  *)
(* fails with a lookup error and leaves labIndxCurrent, fcCurrent, the     *)
(* mask and the colour buffer unchanged, so that a following onSelect      *)
(* still assigns the label that was active before the failed call.         *)
(***************************************************************************)
C7_UnknownName ==
  [][ /\ (Called /\ IsRadio(LastCall) /\ LastCall.label \notin Configured) =>
           /\ err' = "ValueError"
           /\ labIndxCurrent' = labIndxCurrent
           /\ fcCurrent' = fcCurrent
           /\ selMsk' = selMsk
           /\ fc' = fc
      /\ (Called /\ IsSelect(LastCall) /\ log # << >>
            /\ IsRadio(log[Len(log)])
            /\ log[Len(log)].label \notin Configured) =>
           \A i \in 1..Npts :
             ContainsPoint(LastCall.verts, xys[i]) =>
               /\ selMsk'[i] = ActiveAfter(SubSeq(log, 1, Len(log) - 1))
               /\ fc'[i] =
                    rgbLst[ActiveAfter(SubSeq(log, 1, Len(log) - 1)) + 1]
     ]_vars

\* a gesture made right after a failed label click has assigned the label
\* chosen before it
C7_Witness ==
  /\ Len(log) = 3
  /\ IsRadio(log[1]) /\ log[1].label \in Configured
  /\ PositionOf(log[1].label) = 1
  /\ IsRadio(log[2]) /\ log[2].label \notin Configured
  /\ IsSelect(log[3])
  /\ labIndxCurrent = 1
  /\ \E i \in 1..Npts : selMsk[i] = 1 /\ fc[i] = rgbLst[2]

(***************************************************************************)
(* C8  Mask range: every mask entry is the sentinel -1 or an index in      *)
(* [0, number of configured labels - 1], for every label list accepted at  *)
(* construction.                                                           *)
(***************************************************************************)
C8_MaskRange ==
  \A i \in 1..Len(selMsk) :
    selMsk[i] = Sentinel \/ selMsk[i] \in 0..(Len(labels) - 1)

(***************************************************************************)
(* C9  Label truncation: with more than 5 names given, construction        *)
(* succeeds and keeps the first 5; onRadioClicked with the 6th or a later  *)
(* name is a lookup failure; labIndxCurrent is always in 0..4 and indexes  *)
(* an existing palette colour.                                             *)
(***************************************************************************)
C9_Truncation ==
  /\ [](/\ Len(labelsArg) > 5 =>
             /\ ctorErr = "none"
             /\ labels = SubSeq(labelsArg, 1, 5)
        /\ labIndxCurrent \in 0..4
        /\ labIndxCurrent + 1 \in DOMAIN rgbLst)
  /\ [][ (Called /\ IsRadio(LastCall)
            /\ \E k \in 6..Len(labelsArg) : labelsArg[k] = LastCall.label) =>
           err' = "ValueError" ]_vars

(***************************************************************************)
(* C10  Initial state: right after construction, for every N >= 0, the     *)
(* mask has length N with every entry the sentinel, labIndxCurrent is 0,   *)
(* fcCurrent is the first palette colour, and every colour-buffer entry is *)
(* the renderer's construction-time colour.                                *)
(***************************************************************************)
C10_InitialState ==
  log = << >> =>
    /\ ctorErr = "none"
    /\ Len(selMsk) = Npts
    /\ \A i \in 1..Npts : selMsk[i] = Sentinel
    /\ labIndxCurrent = 0
    /\ fcCurrent = << 75, 75, 0, 100 >>
    /\ Len(fc) = Npts
    /\ \A i \in 1..Npts : fc[i] = faceArg

(***************************************************************************)
(* C11  Zero-label manager cannot assign: when the label list is empty, no *)
(* sequence of onSelect calls gives a point a label or changes a point's   *)
(* colour.                                                                 *)
(***************************************************************************)
C11_ZeroLabelsNoAssign ==
  Len(labelsArg) = 0 =>
    \A i \in 1..Npts :
      /\ selMsk[i] = Sentinel
      /\ fc[i] = faceArg

(***************************************************************************)
(* Plane geometry of a loop, independent of the containment test.          *)
(***************************************************************************)
\* p lies on the closed segment from a to b
OnSegment(p, a, b) ==
  /\ (b[1] - a[1]) * (p[2] - a[2]) = (b[2] - a[2]) * (p[1] - a[1])
  /\ (p[1] - a[1]) * (p[1] - b[1]) <= 0
  /\ (p[2] - a[2]) * (p[2] - b[2]) <= 0

\* p lies on an edge or a vertex of the closed polygon
OnBoundary(verts, p) ==
  \E k \in 1..Len(verts) :
    OnSegment(p, verts[k], verts[(k % Len(verts)) + 1])

(***************************************************************************)
(* C12  Inclusive containment: a point that lies exactly on an edge or a   *)
(* vertex of the loop is treated as contained, so onSelect gives it the    *)
(* active label index and colour.                                          *)
(***************************************************************************)
C12_BoundaryIncluded ==
  [][ (Called /\ IsSelect(LastCall)) =>
        \A i \in 1..Npts :
          OnBoundary(LastCall.verts, xys[i]) =>
            /\ selMsk'[i] = labIndxCurrent
            /\ fc'[i] = fcCurrent ]_vars

(***************************************************************************)
(* C13  Redraw signalling: every onSelect issues exactly one redraw        *)
(* request, made after the new colour array has been handed to the         *)
(* collection; every successful onRadioClicked issues exactly one redraw   *)
(* request; a failed onRadioClicked issues none.                           *)
(***************************************************************************)
C13_Redraw ==
  [][ /\ (Called /\ IsSelect(LastCall)) =>
           /\ nDrawIdle' + nDraw' = nDrawIdle + nDraw + 1
           /\ collFc' = fc'
           /\ drawnFc' = fc'
      /\ (Called /\ IsRadio(LastCall) /\ LastCall.label \in Configured) =>
           nDrawIdle' + nDraw' = nDrawIdle + nDraw + 1
      /\ (Called /\ IsRadio(LastCall) /\ LastCall.label \notin Configured) =>
           /\ nDrawIdle' = nDrawIdle
           /\ nDraw' = nDraw
           /\ drawnFc' = drawnFc ]_vars

\* a gesture that recoloured a point, a successful and a failed label click
\* have all happened, and two redraws were requested
C13_Witness ==
  /\ Len(log) = 3
  /\ IsSelect(log[3])
  /\ \E k \in 1..2 : IsRadio(log[k]) /\ log[k].label \in Configured
  /\ \E k \in 1..2 : IsRadio(log[k]) /\ log[k].label \notin Configured
  /\ nDrawIdle = 1
  /\ nDraw = 1
  /\ drawnFc = fc
  /\ \E i \in 1..Npts : fc[i] # faceArg

(***************************************************************************)
(* C15  Structural frame: no onSelect or onRadioClicked call changes the   *)
(* number of points, the point coordinates, the length of the mask or of   *)
(* the colour buffer, or the configured label list; only mask entries,     *)
(* colour-buffer entries, labIndxCurrent and fcCurrent are written.        *)
(***************************************************************************)
C15_StructuralFrame ==
  [][ /\ Npts' = Npts
      /\ xys' = xys
      /\ labels' = labels
      /\ Len(selMsk') = Len(selMsk)
      /\ Len(fc') = Len(fc)
      /\ \A i \in 1..Len(fc) : Len(fc'[i]) = Len(fc[i]) ]_vars

\* both handlers have written: a point carries a label other than the first
C15_Witness ==
  /\ Len(log) = MaxSteps
  /\ \E k \in 1..Len(log) : IsRadio(log[k]) /\ log[k].label \in Configured
  /\ \E i \in 1..Npts : selMsk[i] > 0
  /\ \E i \in 1..Npts : selMsk[i] = Sentinel

(***************************************************************************)
(* C16  Active colour and active index stay paired: fcCurrent is always    *)
(* the palette colour at labIndxCurrent, also after a failed               *)
(* onRadioClicked, so onSelect never writes a colour that disagrees with   *)
(* the index it writes to the mask.                                        *)
(***************************************************************************)
C16_ActivePaired ==
  /\ [](/\ labIndxCurrent + 1 \in DOMAIN rgbLst
        /\ fcCurrent = rgbLst[labIndxCurrent + 1])
  /\ [][ (Called /\ IsSelect(LastCall)) =>
           \A i \in 1..Npts :
             ContainsPoint(LastCall.verts, xys[i]) =>
               /\ selMsk'[i] + 1 \in DOMAIN rgbLst
               /\ fc'[i] = rgbLst[selMsk'[i] + 1] ]_vars

\* a label click has failed after another label than the first was chosen
C16_Witness ==
  /\ Len(log) >= 2
  /\ IsRadio(log[Len(log)])
  /\ log[Len(log)].label \notin Configured
  /\ err = "ValueError"
  /\ labIndxCurrent = 2
  /\ fcCurrent = << 0, 100, 0, 100 >>

(***************************************************************************)
(* C17  Labels are never cleared: a point whose mask value differs from    *)
(* the sentinel keeps a mask value that differs from the sentinel through  *)
(* every later call.                                                       *)
(***************************************************************************)
C17_NeverCleared ==
  [][ \A i \in 1..Npts :
        selMsk[i] # Sentinel => selMsk'[i] # Sentinel ]_vars

\* a labelled point has been lassoed again after a label switch
C17_Witness ==
  /\ Len(log) = 3
  /\ IsSelect(log[1])
  /\ IsRadio(log[2]) /\ log[2].label \in Configured
  /\ IsSelect(log[3])
  /\ \E i \in 1..Npts :
       /\ ContainsPoint(log[1].verts, xys[i])
       /\ ContainsPoint(log[3].verts, xys[i])
       /\ selMsk[i] # Sentinel

(***************************************************************************)
(* C19  onSelect never changes the active label: labIndxCurrent and        *)
(* fcCurrent are the same after an onSelect as before it, so they change   *)
(* only through a successful onRadioClicked.                               *)
(***************************************************************************)
C19_SelectKeepsActive ==
  [][ /\ (Called /\ IsSelect(LastCall)) =>
           /\ labIndxCurrent' = labIndxCurrent
           /\ fcCurrent' = fcCurrent
      /\ (labIndxCurrent' # labIndxCurrent \/ fcCurrent' # fcCurrent) =>
           /\ Called
           /\ IsRadio(LastCall)
           /\ LastCall.label \in Configured ]_vars

\* a gesture has labelled a point under a label other than the first, and
\* that label is still the active one
C19_Witness ==
  /\ log # << >>
  /\ IsSelect(log[Len(log)])
  /\ labIndxCurrent = 3
  /\ \E i \in 1..Npts :
       /\ ContainsPoint(log[Len(log)].verts, xys[i])
       /\ selMsk[i] = 3

(***************************************************************************)
(* The handlers as functions of the fields they read, for reasoning about  *)
(* call sequences that start in the current state.                         *)
(***************************************************************************)
\* labIndxCurrent and fcCurrent after onRadioClicked(label)
AfterRadio(lbls, idx, col, label) ==
  LET found == LabelIndex(lbls, label)
  IN IF ~found.ok THEN [idx |-> idx, col |-> col]
     ELSE IF found.val < Len(rgbLst)
            THEN [idx |-> found.val, col |-> rgbLst[found.val + 1]]
            ELSE [idx |-> found.val, col |-> col]

\* selMsk and fc after the two indexed assignments of onSelect
AfterAssign(msk, buf, idx, col, indices) ==
  [msk |-> MskAssign(msk, indices, idx),
   fc |-> FcAssign(buf, indices, col)]

\* selMsk and fc after onSelect(verts)
AfterSelect(msk, buf, idx, col, verts) ==
  AfterAssign(msk, buf, idx, col, Indices(verts, xys))

\* selMsk and fc after onRadioClicked(a), onSelect(A), onRadioClicked(b),
\* onSelect(B), called in this order from the current state, where iA and
\* iB are the containment sets of the loops A and B
AfterPair(a, iA, b, iB) ==
  LET r1 == AfterRadio(labels, labIndxCurrent, fcCurrent, a)
      s1 == AfterAssign(selMsk, fc, r1.idx, r1.col, iA)
      r2 == AfterRadio(labels, r1.idx, r1.col, b)
  IN AfterAssign(s1.msk, s1.fc, r2.idx, r2.col, iB)

\* the containment sets of the loops, over the points of the current state
LoopIndices == { Indices(v, xys) : v \in LoopSet }

(***************************************************************************)
(* C18  Disjoint gestures commute: for loops A and B whose containment     *)
(* sets share no point and configured labels a and b, the calls            *)
(* onRadioClicked(a), onSelect(A), onRadioClicked(b), onSelect(B) yield    *)
(* the same mask and colour buffer as onRadioClicked(b), onSelect(B),      *)
(* onRadioClicked(a), onSelect(A), from every reachable state.  (The       *)
(* second conjunct ties AfterRadio and AfterSelect to the handlers.)       *)
(***************************************************************************)
C18_DisjointCommute ==
  /\ [](\A iAB \in LoopIndices \X LoopIndices :
          iAB[1] \cap iAB[2] = {} =>
            \A a \in Configured : \A b \in Configured :
              AfterPair(a, iAB[1], b, iAB[2]) = AfterPair(b, iAB[2], a, iAB[1]))
  /\ [][ /\ (Called /\ IsRadio(LastCall)) =>
              << labIndxCurrent', fcCurrent' >> =
                LET r == AfterRadio(labels, labIndxCurrent, fcCurrent,
                                    LastCall.label)
                IN << r.idx, r.col >>
         /\ (Called /\ IsSelect(LastCall)) =>
              << selMsk', fc' >> =
                LET r == AfterSelect(selMsk, fc, labIndxCurrent, fcCurrent,
                                     LastCall.verts)
                IN << r.msk, r.fc >> ]_vars

\* from a state that gestures have already labelled, two disjoint non-empty
\* loops under two different labels overwrite an earlier label
C18_Witness ==
  /\ \E i \in 1..Npts : selMsk[i] # Sentinel
  /\ \E A \in LoopSet : \E B \in LoopSet :
       LET iA == Indices(A, xys)
           iB == Indices(B, xys)
       IN /\ iA # {}
          /\ iB # {}
          /\ iA \cap iB = {}
          /\ \E a \in Configured : \E b \in Configured :
               /\ a # b
               /\ \E i \in iA :
                    /\ selMsk[i] \notin { Sentinel, PositionOf(a) }
                    /\ AfterPair(a, iA, b, iB).msk[i] = PositionOf(a)
               /\ \E j \in iB :
                    AfterPair(a, iA, b, iB).msk[j] = PositionOf(b)

(***************************************************************************)
(* The manager built with two labels, the default of __init__, over a      *)
(* collection drawn in black.                                              *)
(***************************************************************************)
InitCommute ==
  /\ Init
  /\ Len(labelsArg) = 2
  /\ faceArg = << 0, 0, 0, 100 >>

SpecCommute == InitCommute /\ [][Next]_vars

====
